---- MODULE Spec2Model ----
(***************************************************************************)
(* A model of scratch.RemoteSensorConnection (src/scratch/scratch.py):     *)
(* the connection object, the caller threads that use its public methods,  *)
(* the receiver threads it starts, and the peer at the other end of each   *)
(* socket.                                                                 *)
(*                                                                         *)
(* Bytes are integers 0..255 and byte strings are sequences of them; text  *)
(* is a sequence of code points.  The model's alphabet is ASCII plus the   *)
(* byte 255, which no UTF-8 text contains.                                 *)
(***************************************************************************)
EXTENDS Integers, Sequences, FiniteSets, TLC

(***************************************************************************)
(* Text helpers: the str methods the receiver and the senders use.         *)
(***************************************************************************)

\* 'broadcast' (line 172)
KW_BROADCAST == <<98, 114, 111, 97, 100, 99, 97, 115, 116>>

\* 'sensor-update' (line 175)
KW_SENSOR == <<115, 101, 110, 115, 111, 114, 45, 117, 112, 100, 97, 116, 101>>

\* ' ' and '"'
SPACE == <<32>>

QUOTE == <<34>>

\* str.startswith
StartsWith(s, p) ==
    /\ Len(s) >= Len(p)
    /\ SubSeq(s, 1, Len(p)) = p

\* str.find, 1-based; 0 when p does not occur in s
Find(s, p) ==
    LET hits == {i \in 1..(Len(s) - Len(p) + 1) : SubSeq(s, i, i + Len(p) - 1) = p}
    IN  IF hits = {} THEN 0 ELSE CHOOSE i \in hits : \A j \in hits : i <= j

\* s.replace(p, '', 1)
RemoveFirst(s, p) ==
    LET i == Find(s, p)
    IN  IF i = 0 THEN s
        ELSE SubSeq(s, 1, i - 1) \o SubSeq(s, i + Len(p), Len(s))

RECURSIVE RemoveCount(_, _, _)
\* s.replace(p, '', count)
RemoveCount(s, p, count) ==
    IF count = 0 \/ Find(s, p) = 0 THEN s
    ELSE LET i == Find(s, p)
         IN  SubSeq(s, 1, i - 1)
                 \o RemoveCount(SubSeq(s, i + Len(p), Len(s)), p, count - 1)

RECURSIVE Split(_, _)
\* s.split(sep) for a one-character sep: always at least one element
Split(s, sep) ==
    LET i == Find(s, sep)
    IN  IF i = 0 THEN <<s>>
        ELSE <<SubSeq(s, 1, i - 1)>> \o Split(SubSeq(s, i + 1, Len(s)), sep)

\* the ASCII characters str.strip() removes
Whitespace == {9, 10, 11, 12, 13, 32}

RECURSIVE LStrip(_)
LStrip(s) ==
    IF s # <<>> /\ Head(s) \in Whitespace THEN LStrip(Tail(s)) ELSE s

RECURSIVE RStrip(_)
RStrip(s) ==
    IF s # <<>> /\ s[Len(s)] \in Whitespace
    THEN RStrip(SubSeq(s, 1, Len(s) - 1)) ELSE s

\* str.strip()
Strip(s) == RStrip(LStrip(s))

(***************************************************************************)
(* Numeric literals: int(value) and float(value) of lines 183 and 185.     *)
(* A parsed int is [kind |-> "int", num |-> n]; a parsed float is          *)
(* [kind |-> "float", num |-> m, scale |-> k], the number m / 10^k with m  *)
(* carrying no trailing zero, or [kind |-> "float", special |-> ...] for   *)
(* inf and nan.                                                            *)
(***************************************************************************)

IsDigit(ch) == ch \in 48..57

AllDigits(s) == \A i \in 1..Len(s) : IsDigit(s[i])

RECURSIVE DigitsVal(_)
DigitsVal(s) ==
    IF s = <<>> THEN 0
    ELSE 10 * DigitsVal(SubSeq(s, 1, Len(s) - 1)) + (s[Len(s)] - 48)

RECURSIVE Pow10(_)
Pow10(k) == IF k <= 0 THEN 1 ELSE 10 * Pow10(k - 1)

\* '+' or '-' in front of a literal
HasSign(s) == s # <<>> /\ Head(s) \in {43, 45}

Unsigned(s) == IF HasSign(s) THEN Tail(s) ELSE s

SignOf(s) == IF s # <<>> /\ Head(s) = 45 THEN -1 ELSE 1

\* int(s) succeeds: optional sign, then one or more digits
IsIntLiteral(s) ==
    /\ Unsigned(s) # <<>>
    /\ AllDigits(Unsigned(s))

IntValue(s) == SignOf(s) * DigitsVal(Unsigned(s))

ToLower(s) == [i \in 1..Len(s) |-> IF s[i] \in 65..90 THEN s[i] + 32 ELSE s[i]]

\* 'inf', 'infinity', 'nan'
InfWords == {<<105, 110, 102>>, <<105, 110, 102, 105, 110, 105, 116, 121>>}

NanWord == <<110, 97, 110>>

\* the text before and after an exponent marker 'e' or 'E' (the whole text
\* when there is none)
ExpAt(s) == Find(ToLower(s), <<101>>)

Mantissa(s) == IF ExpAt(s) = 0 THEN s ELSE SubSeq(s, 1, ExpAt(s) - 1)

Exponent(s) == IF ExpAt(s) = 0 THEN <<48>> ELSE SubSeq(s, ExpAt(s) + 1, Len(s))

\* digits '.' digits with at least one digit in all
DotAt(s) == Find(s, <<46>>)

IntPart(s) == IF DotAt(s) = 0 THEN s ELSE SubSeq(s, 1, DotAt(s) - 1)

FracPart(s) == IF DotAt(s) = 0 THEN <<>> ELSE SubSeq(s, DotAt(s) + 1, Len(s))

IsDecimal(s) ==
    /\ AllDigits(IntPart(s))
    /\ AllDigits(FracPart(s))
    /\ Len(IntPart(s)) + Len(FracPart(s)) >= 1

\* float(s) succeeds
IsFloatLiteral(s) ==
    \/ ToLower(Unsigned(s)) \in InfWords \cup {NanWord}
    \/ /\ IsDecimal(Mantissa(Unsigned(s)))
       /\ IsIntLiteral(Exponent(Unsigned(s)))

RECURSIVE Normalize(_, _)
\* drop the trailing zeros of m / 10^k
Normalize(m, k) ==
    IF m = 0 THEN [kind |-> "float", num |-> 0, scale |-> 0]
    ELSE IF m % 10 = 0 THEN Normalize(m \div 10, k - 1)
    ELSE [kind |-> "float", num |-> m, scale |-> k]

FloatValue(s) ==
    LET u == Unsigned(s)
        m == Mantissa(u)
    IN  IF ToLower(u) \in InfWords
        THEN [kind |-> "float", special |-> IF SignOf(s) = 1 THEN "inf" ELSE "-inf"]
        ELSE IF ToLower(u) = NanWord THEN [kind |-> "float", special |-> "nan"]
        ELSE LET digits == IntPart(m) \o FracPart(m)
                 scale == Len(FracPart(m)) - IntValue(Exponent(u))
             IN  IF scale >= 0
                 THEN Normalize(SignOf(s) * DigitsVal(digits), scale)
                 ELSE Normalize(SignOf(s) * DigitsVal(digits) * Pow10(-scale), 0)

\* lines 182-185: int(value), and on ValueError float(value); "ValueError"
\* when float(value) raises too
ParseNumber(value) ==
    IF IsIntLiteral(value) THEN [kind |-> "int", num |-> IntValue(value)]
    ELSE IF IsFloatLiteral(value) THEN FloatValue(value)
    ELSE [kind |-> "ValueError"]

(***************************************************************************)
(* Frame codec: struct.pack('>i', n), struct.unpack('>i', b) and the UTF-8 *)
(* conversions, for code points below 2048.                                *)
(***************************************************************************)

\* A faulty packing: the four bytes in little-endian order, struct.pack('<i', n)
PackLittleEndian(n) ==
    << n % 256, (n \div 256) % 256, (n \div 65536) % 256, (n \div 16777216) % 256 >>

\* struct.pack('>i', n) for 0 <= n < 2^31 (lines 211 and 239)
Pack(n) ==
    << (n \div 16777216) % 256, (n \div 65536) % 256, (n \div 256) % 256, n % 256 >>

\* struct.unpack('>i', b)[0]: big-endian, signed (line 169)
Unpack(b) ==
    LET high == IF b[1] >= 128 THEN b[1] - 256 ELSE b[1]
    IN  high * 16777216 + b[2] * 65536 + b[3] * 256 + b[4]

RECURSIVE Encode(_)
\* text.encode('utf-8') (lines 209 and 237)
Encode(text) ==
    IF text = <<>> THEN <<>>
    ELSE LET cp == Head(text)
         IN  (IF cp < 128 THEN <<cp>>
              ELSE <<192 + (cp \div 64), 128 + (cp % 64)>>) \o Encode(Tail(text))

RECURSIVE ValidUtf8(_)
\* bytes.decode('utf-8') does not raise UnicodeDecodeError
ValidUtf8(b) ==
    IF b = <<>> THEN TRUE
    ELSE IF b[1] < 128 THEN ValidUtf8(Tail(b))
    ELSE /\ b[1] \in 194..223
         /\ Len(b) >= 2
         /\ b[2] \in 128..191
         /\ ValidUtf8(SubSeq(b, 3, Len(b)))

RECURSIVE Decode(_)
\* bytes.decode('utf-8') of valid bytes (line 171)
Decode(b) ==
    IF b = <<>> THEN <<>>
    ELSE IF b[1] < 128 THEN <<b[1]>> \o Decode(Tail(b))
    ELSE <<(b[1] - 192) * 64 + (b[2] - 128)>> \o Decode(SubSeq(b, 3, Len(b)))

\* A faulty completeness test, one byte short of line 170: it holds when the
\* last byte of the body has yet to come.
FrameCompleteEarly(buf) ==
    /\ Len(buf) >= 4
    /\ Len(buf) + 1 = 4 + Unpack(SubSeq(buf, 1, 4))

\* line 168 and line 170: the buffer holds one whole frame
FrameComplete(buf) ==
    /\ Len(buf) >= 4
    /\ Len(buf) = 4 + Unpack(SubSeq(buf, 1, 4))

\* receive_buffer[4:] (line 171)
FrameBody(buf) == SubSeq(buf, 5, Len(buf))

(***************************************************************************)
(* Message grammar.                                                        *)
(***************************************************************************)

\* line 209: the body of a broadcast frame
BroadcastBody(message) == Encode(KW_BROADCAST \o SPACE \o QUOTE \o message \o QUOTE)

\* A faulty parse: the second replace of line 173 left out
ParseBroadcastKeepQuotes(text) == RemoveFirst(text, KW_BROADCAST \o SPACE)

\* line 173: the message of a received broadcast body
ParseBroadcast(text) ==
    RemoveCount(RemoveFirst(text, KW_BROADCAST \o SPACE), QUOTE, 2)

RECURSIVE ParsePairs(_, _)
\* lines 178-185: the loop that pops a key and a value at a time; exc names
\* the exception that ends it, "" when it runs to the end
ParsePairs(sensor_data, sensor_data_dict) ==
    IF sensor_data = <<>> THEN [exc |-> "", dict |-> sensor_data_dict]
    ELSE IF Len(sensor_data) = 1
    THEN [exc |-> "IndexError", dict |-> sensor_data_dict]
    ELSE LET key == sensor_data[1]
             value == ParseNumber(Strip(sensor_data[2]))
         IN  IF value.kind = "ValueError"
             THEN [exc |-> "ValueError", dict |-> sensor_data_dict]
             ELSE ParsePairs(SubSeq(sensor_data, 3, Len(sensor_data)),
                             (key :> value) @@ sensor_data_dict)

\* lines 176-185
ParseSensorUpdate(text) ==
    ParsePairs(Tail(Split(RemoveFirst(text, KW_SENSOR \o SPACE), QUOTE)), <<>>)

\* A faulty classification: line 172 left out, so that every body that is
\* no sensor-update goes to the broadcast handler.
DispatchUntested(body) ==
    IF ~ValidUtf8(body) THEN [act |-> "raise", exc |-> "UnicodeDecodeError"]
    ELSE LET received_data == Decode(body)
         IN  IF StartsWith(received_data, KW_SENSOR)
             THEN LET r == ParseSensorUpdate(received_data)
                  IN  IF r.exc = "" THEN [act |-> "sensor-update", arg |-> r.dict]
                      ELSE [act |-> "raise", exc |-> r.exc]
             ELSE [act |-> "broadcast", arg |-> ParseBroadcast(received_data)]

\* lines 171-187: what the receiver does with one complete frame body: the
\* handler it calls and with what, or the exception that escapes
Dispatch(body) ==
    IF ~ValidUtf8(body) THEN [act |-> "raise", exc |-> "UnicodeDecodeError"]
    ELSE LET received_data == Decode(body)
         IN  IF StartsWith(received_data, KW_BROADCAST)
             THEN [act |-> "broadcast", arg |-> ParseBroadcast(received_data)]
             ELSE IF StartsWith(received_data, KW_SENSOR)
             THEN LET r == ParseSensorUpdate(received_data)
                  IN  IF r.exc = "" THEN [act |-> "sensor-update", arg |-> r.dict]
                      ELSE [act |-> "raise", exc |-> r.exc]
             ELSE [act |-> "ignore"]

(***************************************************************************)
(* The state machine.                                                      *)
(***************************************************************************)

\* Caller threads: the application threads that call the public methods.
Callers == {1, 2}

\* connect calls that reach socket creation, in one run
MaxConnects == 2

\* public-method calls in one run (handlers' calls included)
MaxCalls == 3

\* short writes the transport makes in one run: a send() inside sendall that
\* takes only part of what is left
MaxPartial == 1

\* Sockets are numbered in the order connect creates them; the receiver
\* thread connect starts on socket s is thread s.
SockIds == 1..MaxConnects

\* The contexts a public method is called from: caller thread c is c, the
\* handler running on receiver thread t is -t.
Contexts == Callers \cup {-t : t \in SockIds}

VARIABLES
    _connected,         \* self._connected
    sock,               \* self.sock: a socket id, 0 before the first connect
    _receiver_alive,    \* self._receiver_alive (read only after it is set)
    _receiver_thread,   \* self._receiver_thread: a thread id, 0 while unset
    sockets,            \* per socket: state, all the peer sends (script), what
                        \* of it is still unread (inq), whether the peer has
                        \* reset the connection, the bytes written (wire)
    thr,                \* per receiver thread: pc, receive_buffer, exception
    callers,            \* per caller thread: where it is in a public method
    handled,            \* the handler invocations, in order
    frames,             \* the frame bodies extracted at line 171, in order
    hist,               \* per context, its finished public-method calls
    stopped,            \* threads started before a disconnect that returned
    late,               \* threads of stopped that read or dispatched since
    budget,             \* what is left of MaxConnects, MaxCalls, MaxPartial
    env                 \* the caller threads that make calls, what they may
                        \* pass and what the peers may send

vars == << _connected, sock, _receiver_alive, _receiver_thread, sockets, thr,
           callers, handled, frames, hist, stopped, late, budget, env >>

obj == << _connected, sock, _receiver_alive, _receiver_thread >>

NoSocket == [state |-> "none", script |-> <<>>, inq |-> <<>>, peer |-> "open",
             wire |-> <<>>]

NoThread == [pc |-> "new", buf |-> <<>>, exc |-> "", target |-> 0, pre |-> {},
             was |-> FALSE]

Idle == [pc |-> "idle", op |-> "", target |-> 0, rem |-> <<>>, pre |-> {},
         was |-> FALSE]

\* lines 35-57: the object after construction; no socket, no thread
InitObject ==
    /\ _connected = FALSE
    /\ sock = 0
    /\ _receiver_alive = FALSE
    /\ _receiver_thread = 0
    /\ sockets = [s \in SockIds |-> NoSocket]
    /\ thr = [t \in SockIds |-> NoThread]
    /\ callers = [c \in Callers |-> Idle]
    /\ handled = <<>>
    /\ frames = <<>>
    /\ hist = [x \in Contexts |-> <<>>]
    /\ stopped = {}
    /\ late = {}

\* A finished call as hist keeps it: the method, how it ended ("return" or
\* the exception raised), what is_connected() gave when it was called (was)
\* and gives as it ends (conn), whether self.sock is closed as it ends, and
\* whether no connect had made a socket when it was called.
Done(op, out, was, conn, closed, first) ==
    [op |-> op, out |-> out, was |-> was, conn |-> conn, closed |-> closed,
     first |-> first]

\* self.sock is a socket that has been closed
SockClosed == sock # 0 /\ sockets[sock].state = "closed"

Log(x, entry) == [hist EXCEPT ![x] = Append(@, entry)]

\* threads that have been started and have not exited
Live == {t \in SockIds : thr[t].pc \notin {"new", "done", "dead"}}

Started == {t \in SockIds : thr[t].pc # "new"}

Exited(t) == thr[t].pc \in {"done", "dead"}

(***************************************************************************)
(* connect, lines 83-107.                                                  *)
(***************************************************************************)

\* A faulty error path: the socket.error of the TCP connect is dropped at
\* line 105 and connect goes on
ConnectSwallows(outcome) == outcome = "ValueError"

\* lines 97, 99 and 105: connect raises when an argument is of the wrong
\* type and when the TCP connect fails
ConnectRaises(outcome) == outcome # "ok"

\* lines 96-105: argument checks, a new socket, the TCP connect.  The new
\* socket replaces self.sock before the connect is attempted, so a failed
\* connect leaves self.sock an unconnected socket.
ConnectCall(c) ==
    /\ c \in env.callers
    /\ callers[c].pc = "idle"
    /\ budget.calls > 0
    /\ budget.connects > 0
    /\ LET s == Cardinality({x \in SockIds : sockets[x].state # "none"}) + 1
       IN  \E outcome \in {"ValueError", "socket.error", "ok"} :
           \E script \in env.scripts[s] :
             /\ outcome # "ok" => script = <<>>
             /\ budget' = [budget EXCEPT !.calls = @ - 1,
                               !.connects = IF outcome = "ValueError" THEN @ ELSE @ - 1]
             /\ sock' = IF outcome = "ValueError" THEN sock ELSE s
             /\ sockets' = IF outcome = "ValueError" THEN sockets
                           ELSE [sockets EXCEPT ![s] =
                                   [state |-> IF outcome = "ok" THEN "open" ELSE "unconnected",
                                    script |-> script, inq |-> script,
                                    peer |-> "open", wire |-> <<>>]]
             /\ callers' = [callers EXCEPT ![c] =
                              IF ~ConnectRaises(outcome)
                              THEN [Idle EXCEPT !.pc = "connecting", !.op = "connect",
                                                !.target = s, !.was = _connected]
                              ELSE Idle]
             /\ hist' = IF ~ConnectRaises(outcome) THEN hist
                        ELSE Log(c, Done("connect", outcome, _connected, _connected, FALSE, sock = 0))
             /\ UNCHANGED << _connected, _receiver_alive, _receiver_thread, thr,
                             handled, frames, stopped, late, env >>

\* lines 106-107 and _start_receiver, lines 144-147
ConnectStart(c) ==
    /\ callers[c].pc = "connecting"
    /\ LET t == callers[c].target
       IN  /\ _connected' = TRUE
           /\ _receiver_alive' = TRUE
           /\ _receiver_thread' = t
           /\ thr' = [thr EXCEPT ![t] = [NoThread EXCEPT !.pc = "loop"]]
    /\ callers' = [callers EXCEPT ![c] = Idle]
    /\ hist' = Log(c, Done("connect", "return", callers[c].was, TRUE,
                           SockClosed, callers[c].target = 1))
    /\ UNCHANGED << sock, sockets, handled, frames, stopped, late, budget, env >>

(***************************************************************************)
(* disconnect, lines 109-129, and _stop_receiver, lines 149-153.  A        *)
(* context is a caller thread (c > 0) or the receiver thread t whose       *)
(* handler makes the call (-t).                                            *)
(***************************************************************************)

\* A faulty guard: line 119 left out
GuardAlways == TRUE

\* line 119
DisconnectGuard == _connected

\* socket.shutdown(SHUT_RDWR) succeeds on a connected socket whose peer has
\* not reset the connection; else it raises (ENOTCONN, EBADF)
ShutdownOk(s) ==
    /\ sockets[s].state = "open"
    /\ sockets[s].peer # "rst"

\* how lines 119-120 and 152 end for the context that runs on thread self
\* (0 for a caller thread): "noop", the name of an exception, or "join"
DisconnectBegin(self) ==
    IF ~DisconnectGuard THEN "noop"
    ELSE IF _receiver_thread = 0 THEN "AttributeError"
    ELSE IF _receiver_thread = self THEN "RuntimeError"
    ELSE "join"

\* A faulty order: the object is marked disconnected (line 129) and its
\* socket is left open, lines 121-128 left out
MarksWithoutClosing(pre) ==
    /\ ShutdownOk(sock)
    /\ sockets' = sockets
    /\ _connected' = FALSE
    /\ stopped' = stopped \cup pre

\* lines 121-129 once the join has returned: shutdown, close, mark.  In the
\* first case disconnect returns; pre holds the threads that had been
\* started when it was called.
DisconnectCloses(pre) ==
    /\ ShutdownOk(sock)
    /\ sockets' = [sockets EXCEPT ![sock].state = "closed"]
    /\ _connected' = FALSE
    /\ stopped' = stopped \cup pre

\* line 122 raises: nothing is closed and self._connected stays as it is
DisconnectRaises ==
    /\ ~ShutdownOk(sock)
    /\ UNCHANGED << sockets, _connected, stopped >>

\* lines 119-120 and line 152, on a caller thread
DisconnectCall(c) ==
    /\ c \in env.callers
    /\ callers[c].pc = "idle"
    /\ budget.calls > 0
    /\ budget' = [budget EXCEPT !.calls = @ - 1]
    /\ LET how == DisconnectBegin(0)
       IN  /\ _receiver_alive' = IF how = "noop" THEN _receiver_alive ELSE FALSE
           /\ callers' = [callers EXCEPT ![c] =
                            IF how = "join"
                            THEN [Idle EXCEPT !.pc = "joining", !.op = "disconnect",
                                              !.target = _receiver_thread,
                                              !.pre = Started, !.was = _connected]
                            ELSE Idle]
           /\ hist' = IF how = "join" THEN hist
                      ELSE Log(c, Done("disconnect",
                                       IF how = "noop" THEN "return" ELSE how,
                                       _connected, _connected, SockClosed,
                                       sock = 0))
    /\ UNCHANGED << _connected, sock, _receiver_thread, sockets, thr, handled,
                    frames, stopped, late, env >>

\* line 153 returns, then lines 121-129, on a caller thread
DisconnectJoin(c) ==
    /\ callers[c].pc = "joining"
    /\ Exited(callers[c].target)
    /\ \/ /\ DisconnectCloses(callers[c].pre)
          /\ hist' = Log(c, Done("disconnect", "return", callers[c].was, FALSE,
                                 TRUE, FALSE))
       \/ /\ DisconnectRaises
          /\ hist' = Log(c, Done("disconnect", "socket.error", callers[c].was,
                                 _connected, SockClosed, FALSE))
    /\ callers' = [callers EXCEPT ![c] = Idle]
    /\ UNCHANGED << sock, _receiver_alive, _receiver_thread, thr, handled, frames,
                    late, budget, env >>

(***************************************************************************)
(* _receiver, lines 155-192, one thread per successful connect.            *)
(***************************************************************************)

\* line 160, the loop test: the pc of a thread that goes round the loop
\* again, or leaves it
LoopTest == IF _receiver_alive THEN "recv" ELSE "done"

\* lines 158-160: the thread starts and makes its first loop test.  Every
\* later test is part of the step that ends the iteration before it, so a
\* thread at "recv" has passed the test and is in, or about to call, recv.
RecvTest(t) ==
    /\ thr[t].pc = "loop"
    /\ thr' = [thr EXCEPT ![t].pc = LoopTest]
    /\ UNCHANGED << obj, sockets, callers, handled, frames, hist, stopped, late,
                    budget, env >>

\* self.sock.recv(1) raises socket.error: the socket is closed or was never
\* connected, or the peer has reset the connection
RecvRaises(s) ==
    \/ sockets[s].state # "open"
    \/ sockets[s].peer = "rst"

\* A faulty handling of a read error: the loop goes on to read again
RetryOnReadError == "recv"

\* lines 189-192: socket.error out of recv is caught outside the loop,
\* printed and raised again, which ends the thread
OnReadError == "dead"

\* lines 161-188 and the next test of line 160: one recv(1) on whatever
\* self.sock is now, and what follows from the byte it returns.  A timeout
\* (line 164) and an empty read (line 166 fails: the peer has sent all it
\* sends and closed its end) both leave the buffer as it is.
Recv(t) ==
    /\ thr[t].pc = "recv"
    /\ late' = IF t \in stopped THEN late \cup {t} ELSE late
    /\ \/ /\ RecvRaises(sock)
          /\ thr' = [thr EXCEPT ![t].pc = OnReadError, ![t].exc = "socket.error"]
          /\ UNCHANGED << sockets, handled, frames >>
       \/ /\ ~RecvRaises(sock)
          /\ thr' = [thr EXCEPT ![t].pc = LoopTest]
          /\ UNCHANGED << sockets, handled, frames >>
       \/ /\ ~RecvRaises(sock)
          /\ sockets[sock].inq # <<>>
          /\ sockets' = [sockets EXCEPT ![sock].inq = Tail(@)]
          /\ LET receive_buffer == Append(thr[t].buf, Head(sockets[sock].inq))
                 d == Dispatch(FrameBody(receive_buffer))
             IN  IF ~FrameComplete(receive_buffer)
                 THEN /\ thr' = [thr EXCEPT ![t].pc = LoopTest, ![t].buf = receive_buffer]
                      /\ UNCHANGED << handled, frames >>
                 ELSE /\ frames' = Append(frames, [t |-> t, body |-> FrameBody(receive_buffer)])
                      /\ handled' = IF d.act \in {"broadcast", "sensor-update"}
                                    THEN Append(handled, [t |-> t, act |-> d.act, arg |-> d.arg])
                                    ELSE handled
                      /\ thr' = [thr EXCEPT ![t] =
                                   IF d.act = "raise"
                                   THEN [@ EXCEPT !.pc = "dead", !.exc = d.exc,
                                                  !.buf = receive_buffer]
                                   ELSE IF d.act = "ignore"
                                   THEN [@ EXCEPT !.pc = LoopTest, !.buf = <<>>]
                                   ELSE [@ EXCEPT !.pc = "handler", !.buf = receive_buffer]]
    /\ UNCHANGED << obj, callers, hist, stopped, budget, env >>

\* the handler returns; line 188 and the next test of line 160
HandlerReturn(t) ==
    /\ thr[t].pc = "handler"
    /\ thr' = [thr EXCEPT ![t].pc = LoopTest, ![t].buf = <<>>]
    /\ UNCHANGED << obj, sockets, callers, handled, frames, hist, stopped, late,
                    budget, env >>

\* the handler calls disconnect: lines 119-120 and 152 on receiver thread t.
\* Joining the thread one runs on raises RuntimeError, which the handler,
\* line 174 or 186, and the except clause of line 189 all let through.
HandlerDisconnect(t) ==
    /\ thr[t].pc = "handler"
    /\ budget.calls > 0
    /\ budget' = [budget EXCEPT !.calls = @ - 1]
    /\ LET how == DisconnectBegin(t)
       IN  /\ _receiver_alive' = IF how = "noop" THEN _receiver_alive ELSE FALSE
           /\ thr' = [thr EXCEPT ![t] =
                        IF how = "join"
                        THEN [@ EXCEPT !.pc = "hjoin", !.target = _receiver_thread,
                                       !.pre = Started, !.was = _connected]
                        ELSE IF how = "noop" THEN @
                        ELSE [@ EXCEPT !.pc = "dead", !.exc = how]]
           /\ hist' = IF how = "join" THEN hist
                      ELSE Log(-t, Done("disconnect",
                                        IF how = "noop" THEN "return" ELSE how,
                                        _connected, _connected, SockClosed,
                                        FALSE))
    /\ UNCHANGED << _connected, sock, _receiver_thread, sockets, callers, handled,
                    frames, stopped, late, env >>

\* line 153 returns on receiver thread t, which joined another thread; then
\* lines 121-129.  An OSError out of the handler is caught at line 189 and
\* raised again.
HandlerJoin(t) ==
    /\ thr[t].pc = "hjoin"
    /\ Exited(thr[t].target)
    /\ \/ /\ DisconnectCloses(thr[t].pre)
          /\ thr' = [thr EXCEPT ![t].pc = "handler"]
          /\ hist' = Log(-t, Done("disconnect", "return", thr[t].was, FALSE,
                                  TRUE, FALSE))
       \/ /\ DisconnectRaises
          /\ thr' = [thr EXCEPT ![t].pc = "dead", ![t].exc = "socket.error"]
          /\ hist' = Log(-t, Done("disconnect", "socket.error", thr[t].was,
                                  _connected, SockClosed, FALSE))
    /\ UNCHANGED << sock, _receiver_alive, _receiver_thread, callers, handled,
                    frames, late, budget, env >>

(***************************************************************************)
(* send_broadcast, lines 194-214, and send_sensor_update, lines 216-242.   *)
(* A message is [str |-> TRUE, text |-> ...] or, for an argument that is   *)
(* no string, [str |-> FALSE]; a sensor value is a parsed number or        *)
(* [kind |-> "other"].                                                     *)
(***************************************************************************)

RECURSIVE NatStr(_)
\* str(n) for n >= 0
NatStr(n) == IF n < 10 THEN <<48 + n>> ELSE NatStr(n \div 10) \o <<48 + (n % 10)>>

Abs(n) == IF n < 0 THEN -n ELSE n

RECURSIVE ZeroPad(_, _)
ZeroPad(digits, width) ==
    IF Len(digits) >= width THEN digits ELSE ZeroPad(<<48>> \o digits, width)

\* str(value) of line 236 for an int, and for a float that Python writes
\* without an exponent
StrNumber(value) ==
    LET sign == IF value.num < 0 THEN <<45>> ELSE <<>>
    IN  IF value.kind = "int" THEN sign \o NatStr(Abs(value.num))
        ELSE sign \o NatStr(Abs(value.num) \div Pow10(value.scale)) \o <<46>>
                  \o (IF value.scale = 0 THEN <<48>>
                      ELSE ZeroPad(NatStr(Abs(value.num) % Pow10(value.scale)),
                                   value.scale))

RECURSIVE SensorText(_)
\* lines 233-236: what the loop adds to message, pair by pair
SensorText(sensor_data) ==
    IF sensor_data = <<>> THEN <<>>
    ELSE QUOTE \o Head(sensor_data).name \o QUOTE \o SPACE
               \o StrNumber(Head(sensor_data).value) \o SPACE
               \o SensorText(Tail(sensor_data))

\* lines 232-237: the body of a sensor-update frame
SensorBody(sensor_data) == Encode(KW_SENSOR \o SPACE \o SensorText(sensor_data))

\* struct.pack('>i', len(message_data)) + message_data (lines 211 and 239)
Frame(message_data) == Pack(Len(message_data)) \o message_data

\* line 234: every value is an int or a float
ValuesNumeric(sensor_data) ==
    \A i \in 1..Len(sensor_data) : sensor_data[i].value.kind \in {"int", "float"}

\* a send() on socket s succeeds
Writable(s) ==
    /\ sockets[s].state = "open"
    /\ sockets[s].peer # "rst"

\* what a send method does up to the call of sendall: it raises (ValueError
\* for a bad argument, AttributeError when self.sock is unset) or goes on to
\* write message_data to the socket self.sock is now
SendBegin(c, op, valid, message_data) ==
    /\ c \in env.callers
    /\ callers[c].pc = "idle"
    /\ budget.calls > 0
    /\ budget' = [budget EXCEPT !.calls = @ - 1]
    /\ callers' = [callers EXCEPT ![c] =
                     IF valid /\ sock # 0
                     THEN [Idle EXCEPT !.pc = "sending", !.op = op, !.target = sock,
                                       !.rem = Frame(message_data), !.was = _connected]
                     ELSE Idle]
    /\ hist' = IF valid /\ sock # 0 THEN hist
               ELSE Log(c, Done(op, IF valid THEN "AttributeError" ELSE "ValueError",
                                _connected, _connected, SockClosed, sock = 0))
    /\ UNCHANGED << obj, sockets, thr, handled, frames, stopped, late, env >>

\* lines 207-209
SendBroadcast(c) ==
    \E message \in env.messages :
        SendBegin(c, "send_broadcast", message.str,
                  IF message.str THEN BroadcastBody(message.text) ELSE <<>>)

\* lines 232-237
SendSensorUpdate(c) ==
    \E sensor_data \in env.updates :
        SendBegin(c, "send_sensor_update", ValuesNumeric(sensor_data),
                  IF ValuesNumeric(sensor_data) THEN SensorBody(sensor_data) ELSE <<>>)

\* sock.sendall, lines 211 and 239: one send() of the loop inside it.  The
\* transport takes all that is left, or (a short write) only the first k
\* bytes of it; a failed send() raises socket.error out of the method.
SendWrite(c) ==
    /\ callers[c].pc = "sending"
    /\ LET dst == callers[c].target
           rem == callers[c].rem
           op == callers[c].op
       IN  \/ /\ ~Writable(dst)
              /\ callers' = [callers EXCEPT ![c] = Idle]
              /\ hist' = Log(c, Done(op, "socket.error", callers[c].was, _connected, SockClosed, FALSE))
              /\ UNCHANGED << sockets, budget >>
           \/ /\ Writable(dst)
              /\ sockets' = [sockets EXCEPT ![dst].wire = @ \o rem]
              /\ callers' = [callers EXCEPT ![c] = Idle]
              /\ hist' = Log(c, Done(op, "return", callers[c].was, _connected,
                                     SockClosed, FALSE))
              /\ UNCHANGED budget
           \/ /\ Writable(dst)
              /\ budget.partials > 0
              /\ \E k \in 1..(Len(rem) - 1) :
                    /\ sockets' = [sockets EXCEPT ![dst].wire = @ \o SubSeq(rem, 1, k)]
                    /\ callers' = [callers EXCEPT ![c].rem = SubSeq(rem, k + 1, Len(rem))]
              /\ budget' = [budget EXCEPT !.partials = @ - 1]
              /\ UNCHANGED hist
    /\ UNCHANGED << obj, thr, handled, frames, stopped, late, env >>

(***************************************************************************)
(* The peer at the other end of a connected socket.  What it sends is in   *)
(* the socket's inq from the start, and recv hands it out byte by byte,    *)
(* with timeouts in between and timeouts or empty reads after it.  The     *)
(* peer may reset the connection: what is unread is lost and every recv,   *)
(* send and shutdown on the socket raises from then on.                    *)
(***************************************************************************)

\* The object can still read or write socket s: it is self.sock, or a
\* sendall is writing to it.  What the peer of any other socket does has no
\* effect on the object, and is left out.
InUse(s) ==
    \/ s = sock
    \/ \E c \in Callers : callers[c].pc = "sending" /\ callers[c].target = s

PeerReset(s) ==
    /\ InUse(s)
    /\ sockets[s].state = "open"
    /\ sockets[s].peer # "rst"
    /\ sockets' = [sockets EXCEPT ![s].peer = "rst", ![s].inq = <<>>]
    /\ UNCHANGED << obj, thr, callers, handled, frames, hist, stopped, late,
                    budget, env >>

\* A peer that sends back what it is sent: all that has been written to
\* socket s and not yet sent back becomes input of the socket.  It is the
\* peer of the runs that feed the frames of the send methods to the
\* receive loop (lines 211 and 239 to line 163).
PeerEcho(s) ==
    /\ InUse(s)
    /\ sockets[s].state = "open"
    /\ sockets[s].peer # "rst"
    /\ Len(sockets[s].script) < Len(sockets[s].wire)
    /\ LET more == SubSeq(sockets[s].wire, Len(sockets[s].script) + 1,
                          Len(sockets[s].wire))
       IN  sockets' = [sockets EXCEPT ![s].script = @ \o more, ![s].inq = @ \o more]
    /\ UNCHANGED << obj, thr, callers, handled, frames, hist, stopped, late,
                    budget, env >>

(***************************************************************************)
(* The specifications.                                                     *)
(***************************************************************************)

\* What the peer of the s-th socket sends in the runs of Spec: on the first
\* socket nothing, a frame with an empty body or the frame 'broadcast'; on a
\* later one nothing or one byte.
LifeScripts ==
    [s \in SockIds |-> IF s = 1 THEN {<<>>, <<0, 0, 0, 0>>, Frame(KW_BROADCAST)}
                       ELSE {<<>>, <<0>>}]

LifeMessages == {[str |-> TRUE, text |-> <<>>]}

LifeUpdates == {<<>>}

Init ==
    /\ InitObject
    /\ budget = [connects |-> MaxConnects, calls |-> MaxCalls, partials |-> 0]
    /\ env = [callers |-> {1}, scripts |-> LifeScripts, messages |-> LifeMessages,
              updates |-> LifeUpdates]

Next ==
    \/ \E c \in Callers :
          \/ ConnectCall(c)
          \/ ConnectStart(c)
          \/ DisconnectCall(c)
          \/ DisconnectJoin(c)
          \/ SendBroadcast(c)
          \/ SendSensorUpdate(c)
          \/ SendWrite(c)
    \/ \E t \in SockIds :
          \/ RecvTest(t)
          \/ Recv(t)
          \/ HandlerReturn(t)
          \/ HandlerDisconnect(t)
          \/ HandlerJoin(t)
          \/ PeerReset(t)

Spec == Init /\ [][Next]_vars

(***************************************************************************)
(* The receive path alone: one connection, whose peer sends up to          *)
(* MaxFrames frames, well-formed and malformed, and handlers that return.  *)
(***************************************************************************)

\* frames a peer sends in one run of SpecRecv
MaxFrames == 2

\* 'broadcast "a"'
BodyBroadcast == BroadcastBody(<<97>>)

\* 'sensor-update "a" 1 '
BodySensor == SensorBody(<< [name |-> <<97>>, value |-> [kind |-> "int", num |-> 1]] >>)

\* 'sensor-update "a': an odd number of quote-delimited segments
BodyOdd == KW_SENSOR \o SPACE \o QUOTE \o <<97>>

\* 'sensor-update "a" abc': a value that is no number
BodyAbc == KW_SENSOR \o SPACE \o QUOTE \o <<97>> \o QUOTE \o SPACE \o <<97, 98, 99>>

\* 'x': a body of neither kind, and the empty body
RecvBodies == {BodyBroadcast, BodySensor, BodyOdd, BodyAbc, <<120>>, <<>>}

RECURSIVE Streams(_)
\* the encodings of up to n frames with bodies of RecvBodies, concatenated
Streams(n) ==
    IF n = 0 THEN {<<>>}
    ELSE Streams(n - 1)
           \cup {Frame(b) \o rest : b \in RecvBodies, rest \in Streams(n - 1)}

RecvScripts == [s \in SockIds |-> Streams(MaxFrames)]

InitRecv ==
    /\ InitObject
    /\ budget = [connects |-> 1, calls |-> 1, partials |-> 0]
    /\ env = [callers |-> {1}, scripts |-> RecvScripts, messages |-> {}, updates |-> {}]

NextRecv ==
    \/ \E c \in Callers :
          \/ ConnectCall(c)
          \/ ConnectStart(c)
    \/ \E t \in SockIds :
          \/ RecvTest(t)
          \/ Recv(t)
          \/ HandlerReturn(t)

SpecRecv == InitRecv /\ [][NextRecv]_vars

(***************************************************************************)
(* The send path: two caller threads that connect and send on one          *)
(* connection, with short writes.                                          *)
(***************************************************************************)

\* the names send_broadcast is called with: '', 'a', and a non-string
SendMessages ==
    {[str |-> TRUE, text |-> <<>>], [str |-> TRUE, text |-> <<97>>], [str |-> FALSE]}

\* the keyword arguments send_sensor_update is called with: none, a=1, and
\* a value that is no number
SendUpdates ==
    { <<>>,
      << [name |-> <<97>>, value |-> [kind |-> "int", num |-> 1]] >>,
      << [name |-> <<97>>, value |-> [kind |-> "other"]] >> }

InitSend ==
    /\ InitObject
    /\ budget = [connects |-> 1, calls |-> MaxCalls, partials |-> MaxPartial]
    /\ env = [callers |-> Callers, scripts |-> [s \in SockIds |-> {<<>>}],
              messages |-> SendMessages, updates |-> SendUpdates]

NextSend ==
    \E c \in Callers :
        \/ ConnectCall(c)
        \/ ConnectStart(c)
        \/ SendBroadcast(c)
        \/ SendSensorUpdate(c)
        \/ SendWrite(c)

SpecSend == InitSend /\ [][NextSend]_vars

(***************************************************************************)
(* Send and receive together: one caller thread sends on a connection      *)
(* whose peer sends everything back, so that the receive loop reads the    *)
(* frames the send methods write.  A run has one broadcast name and one    *)
(* set of sensor values that its calls pass.                               *)
(***************************************************************************)

\* 'gamestart'
GAMESTART == <<103, 97, 109, 101, 115, 116, 97, 114, 116>>

\* the names passed to send_broadcast: '', 'a', 'gamestart', U+00E9, 'a b',
\* 'a"b', and an argument that is no string
EchoMessages ==
    {[str |-> TRUE, text |-> <<>>], [str |-> TRUE, text |-> <<97>>],
     [str |-> TRUE, text |-> GAMESTART], [str |-> TRUE, text |-> <<233>>],
     [str |-> TRUE, text |-> <<97, 32, 98>>],
     [str |-> TRUE, text |-> <<97, 34, 98>>], [str |-> FALSE]}

IntOf(n) == [kind |-> "int", num |-> n]

\* the float num / 10^scale, num not a multiple of 10 unless it is 0
Float(num, scale) == [kind |-> "float", num |-> num, scale |-> scale]

Pair(name, value) == [name |-> name, value |-> value]

\* the keyword arguments passed to send_sensor_update: none, a=1, a=-12,
\* a=1.5, a=2.0, {a: 1, b: -0.25}, {U+00E9: 0}, {'': 7}, {'a"b': 1} and
\* a value that is no number
EchoUpdates ==
    { <<>>,
      << Pair(<<97>>, IntOf(1)) >>,
      << Pair(<<97>>, IntOf(-12)) >>,
      << Pair(<<97>>, Float(15, 1)) >>,
      << Pair(<<97>>, Float(2, 0)) >>,
      << Pair(<<97>>, IntOf(1)), Pair(<<98>>, Float(-25, 2)) >>,
      << Pair(<<233>>, IntOf(0)) >>,
      << Pair(<<>>, IntOf(7)) >>,
      << Pair(<<97, 34, 98>>, IntOf(1)) >>,
      << Pair(<<97>>, [kind |-> "other"]) >> }

InitEcho ==
    /\ InitObject
    /\ budget = [connects |-> 1, calls |-> MaxCalls, partials |-> 0]
    /\ \E message \in EchoMessages : \E sensor_data \in EchoUpdates :
          env = [callers |-> {1}, scripts |-> [s \in SockIds |-> {<<>>}],
                 messages |-> {message}, updates |-> {sensor_data}]

NextEcho ==
    \/ \E c \in Callers :
          \/ ConnectCall(c)
          \/ ConnectStart(c)
          \/ SendBroadcast(c)
          \/ SendSensorUpdate(c)
          \/ SendWrite(c)
    \/ \E t \in SockIds :
          \/ PeerEcho(t)
          \/ RecvTest(t)
          \/ Recv(t)
          \/ HandlerReturn(t)

SpecEcho == InitEcho /\ [][NextEcho]_vars

(***************************************************************************)
(* The receive path on arbitrary input: one connection whose peer sends    *)
(* any bytes at all, whole frames or not.                                  *)
(***************************************************************************)

\* bytes a peer sends in one run of SpecRaw
MaxRaw == 5

\* the bytes a raw stream is made of: 00, 01 and ff
RawBytes == {0, 1, 255}

RECURSIVE RawStreams(_)
\* the byte streams of up to n bytes
RawStreams(n) ==
    IF n = 0 THEN {<<>>}
    ELSE RawStreams(n - 1)
           \cup {<<b>> \o rest : b \in RawBytes, rest \in RawStreams(n - 1)}

RawScripts == [s \in SockIds |-> RawStreams(MaxRaw)]

InitRaw ==
    /\ InitObject
    /\ budget = [connects |-> 1, calls |-> 1, partials |-> 0]
    /\ env = [callers |-> {1}, scripts |-> RawScripts, messages |-> {}, updates |-> {}]

NextRaw ==
    \/ \E c \in Callers :
          \/ ConnectCall(c)
          \/ ConnectStart(c)
    \/ \E t \in SockIds :
          \/ RecvTest(t)
          \/ Recv(t)

SpecRaw == InitRaw /\ [][NextRaw]_vars

(***************************************************************************)
(* The properties.                                                         *)
(***************************************************************************)

\* no caller thread and no handler is inside a public method
Quiescent ==
    /\ \A c \in Callers : callers[c].pc = "idle"
    /\ \A t \in SockIds : thr[t].pc # "hjoin"

\* a receiver thread has been ended by the exception exc
Killed(t, exc) == thr[t].pc = "dead" /\ thr[t].exc = exc

RECURSIVE FramesOf(_)
\* the bodies of the frames a stream of whole frames is made of
FramesOf(stream) ==
    IF Len(stream) < 4 THEN <<>>
    ELSE LET n == Unpack(SubSeq(stream, 1, 4))
         IN  <<SubSeq(stream, 5, 4 + n)>> \o FramesOf(SubSeq(stream, 5 + n, Len(stream)))

\* the frame bodies the receiver threads have extracted, in order
Yielded == [i \in 1..Len(frames) |-> frames[i].body]

IsPrefix(a, b) == Len(a) <= Len(b) /\ a = SubSeq(b, 1, Len(a))

\* C1: a malformed sensor-update frame (an odd number of quote-delimited
\* segments, or a value that is no number) never ends the receive loop: no
\* receiver thread is ended by the IndexError or the ValueError of parsing
\* a sensor-update body.
C1_MalformedSensorUpdateKeepsLoopRunning ==
    \A t \in SockIds :
        StartsWith(FrameBody(thr[t].buf), KW_SENSOR)
            => ~Killed(t, "IndexError") /\ ~Killed(t, "ValueError")

\* C2: whenever no public method is running, a live receiver thread exists
\* if and only if is_connected() is true.
C2_ReceiveTaskIffConnected ==
    Quiescent => ((Live # {}) <=> _connected)

\* C3: at most one receiver thread is alive at any time.
C3_AtMostOneReceiveTask == Cardinality(Live) <= 1

\* C4: once a disconnect has returned, no receiver thread started before it
\* reads the socket or dispatches to a handler.
C4_NoReceiveActivityAfterDisconnect == late = {}

\* a caller thread is inside the sendall of a send method
Sending(c) == callers[c].pc = "sending"

\* the finished calls of context x that were calls of op
CallsOf(x, op) == {i \in 1..Len(hist[x]) : hist[x][i].op = op}

\* send_sensor_update has not been called
OnlyBroadcasts ==
    \A c \in Callers : callers[c].op # "send_sensor_update"
                        /\ CallsOf(c, "send_sensor_update") = {}

RECURSIVE IsFrames(_)
\* a byte stream is a concatenation of whole frames, each with the body of
\* a broadcast or of a sensor-update
IsFrames(stream) ==
    \/ stream = <<>>
    \/ /\ Len(stream) >= 4
       /\ LET n == Unpack(SubSeq(stream, 1, 4))
          IN  /\ n >= 0
              /\ Len(stream) >= 4 + n
              /\ \/ StartsWith(SubSeq(stream, 5, 4 + n), KW_BROADCAST)
                 \/ StartsWith(SubSeq(stream, 5, 4 + n), KW_SENSOR)
              /\ IsFrames(SubSeq(stream, 5 + n, Len(stream)))

\* C5: concurrent send_broadcast calls never interleave on the wire:
\* whenever no sendall is under way, what has been written to a socket is a
\* concatenation of whole, valid frames, short writes or not.
C5_ConcurrentSendsNeverInterleave ==
    (OnlyBroadcasts /\ \A c \in Callers : ~Sending(c))
        => \A s \in SockIds : IsFrames(sockets[s].wire)

\* C6: a receive loop fed the encodings of N frames byte by byte, with
\* timeouts in between, yields exactly the N bodies, in order and unchanged:
\* what it has yielded is always the first bodies of the stream, and it does
\* not stop before it has yielded them all.
C6_StreamYieldsEveryFrame ==
    LET bodies == FramesOf(sockets[1].script)
    IN  /\ IsPrefix(Yielded, bodies)
        /\ Exited(1) => Yielded = bodies

\* C7: a handler is invoked only when the receive buffer holds the 4-byte
\* prefix and exactly the body bytes the prefix declares, and every frame
\* body yielded is a whole body of the stream, never a part of one.
C7_HandlerOnlyOnWholeFrame ==
    /\ \A t \in SockIds :
          thr[t].pc = "handler"
              => /\ Len(thr[t].buf) >= 4
                 /\ Len(thr[t].buf) - 4 = Unpack(SubSeq(thr[t].buf, 1, 4))
    /\ IsPrefix(Yielded, FramesOf(sockets[1].script))

\* a handler runs on the second frame of a stream
C7_Witness ==
    /\ thr[1].pc = "handler"
    /\ Len(frames) >= 2

\* the calls i, i + 1 and i + 2 of caller c are a connect that returned and
\* two disconnects
ConnectThenTwice(c, i) ==
    /\ i + 2 <= Len(hist[c])
    /\ hist[c][i].op = "connect" /\ hist[c][i].out = "return"
    /\ hist[c][i + 1].op = "disconnect"
    /\ hist[c][i + 2].op = "disconnect"

\* what a finished call shows of itself: how it ended, and what
\* is_connected() and the socket are as it ends
Outcome(e) == << e.out, e.conn, e.closed >>

\* C8: a disconnect before any connect always ends the same way, as a no-op
\* that returns, and two disconnects in a row after a connect end alike.
C8_DisconnectDeterministic ==
    /\ \A x \in Contexts : \A i \in CallsOf(x, "disconnect") :
          hist[x][i].first => Outcome(hist[x][i]) = << "return", FALSE, FALSE >>
    /\ \A c \in Callers : \A i \in 1..Len(hist[c]) :
          ConnectThenTwice(c, i) => Outcome(hist[c][i + 1]) = Outcome(hist[c][i + 2])

\* a caller has connected and disconnected twice, the first time while
\* connected
C8_Witness ==
    \E c \in Callers : ConnectThenTwice(c, 1) /\ hist[c][2].was

\* C9: a disconnect called by a handler on the receive thread, on a
\* connected connection, stops the loop, closes the socket and leaves
\* is_connected() false (unless its shutdown raises the documented error).
C9_DisconnectFromHandler ==
    \A t \in SockIds : \A i \in CallsOf(-t, "disconnect") :
        (hist[-t][i].was /\ hist[-t][i].out # "socket.error")
            => Outcome(hist[-t][i]) = << "return", FALSE, TRUE >>

\* C10: as long as no read and no handler has raised, a disconnect called
\* on a connected connection does not end in an exception: it returns with
\* is_connected() false.
C10_DisconnectReturnsDisconnected ==
    (\A t \in SockIds : thr[t].exc = "")
        => \A x \in Contexts : \A i \in CallsOf(x, "disconnect") :
              hist[x][i].was => /\ hist[x][i].out = "return"
                                /\ ~hist[x][i].conn

\* a frame body that decodes and starts with neither keyword
Ignored(body) ==
    /\ ValidUtf8(body)
    /\ ~StartsWith(Decode(body), KW_BROADCAST)
    /\ ~StartsWith(Decode(body), KW_SENSOR)

\* this step extracts a frame
Extracts == Len(frames') = Len(frames) + 1

\* C11: the step that extracts a frame whose decoded body starts with
\* neither broadcast nor sensor-update invokes no handler and raises
\* nothing; it resets the receive buffer and the thread goes on to the next
\* loop test.
C11_IgnoredBodyIsSkipped ==
    [][ (Extracts /\ Ignored(frames'[Len(frames')].body))
            => LET t == frames'[Len(frames')].t
               IN  /\ handled' = handled
                   /\ thr'[t].exc = ""
                   /\ thr'[t].buf = <<>>
                   /\ thr'[t].pc = "recv" ]_vars

\* a frame that follows an ignored one has been delivered to its handler
C11_Witness ==
    /\ Len(frames) = 2
    /\ Ignored(frames[1].body)
    /\ Len(handled) = 1
    /\ thr[1].pc = "handler"

\* the name and the keyword arguments that the sends of a run of SpecEcho pass
SentMessage == CHOOSE message \in env.messages : TRUE

SentUpdate == CHOOSE sensor_data \in env.updates : TRUE

\* the mapping that keyword arguments are
MappingOf(sensor_data) ==
    LET at(name) == CHOOSE i \in 1..Len(sensor_data) : sensor_data[i].name = name
    IN  [name \in {sensor_data[i].name : i \in 1..Len(sensor_data)}
            |-> sensor_data[at(name)].value]

\* the handler invocations of one kind, in order
Invocations(act) == SelectSeq(handled, LAMBDA h : h.act = act)

\* C12: the frame send_sensor_update writes for a mapping with numeric
\* values, fed to the receive loop, is parsed (no IndexError or ValueError
\* ends the loop) into a mapping equal to the original, which is what the
\* sensor-update handler is passed.
C12_SensorUpdateRoundTrip ==
    /\ \A t \in SockIds : ~Killed(t, "IndexError") /\ ~Killed(t, "ValueError")
    /\ \A i \in 1..Len(Invocations("sensor-update")) :
          Invocations("sensor-update")[i].arg = MappingOf(SentUpdate)

NoQuoteIn(text) == \A k \in 1..Len(text) : text[k] # 34

\* C13: for a broadcast name with no double quote in it, the frame
\* send_broadcast writes, fed to the receive loop, is parsed into exactly
\* that name: every invocation of the broadcast handler is passed it.
C13_BroadcastRoundTrip ==
    (SentMessage.str /\ NoQuoteIn(SentMessage.text))
        => \A i \in 1..Len(Invocations("broadcast")) :
              Invocations("broadcast")[i].arg = SentMessage.text

\* the broadcast handler has been passed a name of two bytes in UTF-8
C13_Witness ==
    /\ SentMessage.str
    /\ SentMessage.text = <<233>>
    /\ Len(Invocations("broadcast")) >= 1

\* the frame a successful call of op is to write: four bytes of length,
\* most significant first, and the body
ExpectedFrame(op) ==
    LET body == IF op = "send_broadcast" THEN BroadcastBody(SentMessage.text)
                ELSE SensorBody(SentUpdate)
    IN  <<0, 0, 0, Len(body)>> \o body

RECURSIVE ExpectedWire(_)
\* the frames of the send calls of h that returned, in order
ExpectedWire(h) ==
    IF h = <<>> THEN <<>>
    ELSE (IF Head(h).op \in {"send_broadcast", "send_sensor_update"}
             /\ Head(h).out = "return"
          THEN ExpectedFrame(Head(h).op) ELSE <<>>) \o ExpectedWire(Tail(h))

\* 'broadcast "gamestart"', 21 bytes
GamestartBody ==
    <<98, 114, 111, 97, 100, 99, 97, 115, 116, 32, 34,
      103, 97, 109, 101, 115, 116, 97, 114, 116, 34>>

\* 00 00 00 14 and 'sensor-update "a" 1 ', 20 bytes
SensorA1Frame ==
    <<0, 0, 0, 20, 115, 101, 110, 115, 111, 114, 45, 117, 112, 100, 97, 116,
      101, 32, 34, 97, 34, 32, 49, 32>>

\* the sends that have returned are one call of op and no other
OnlyReturned(op) ==
    /\ ~Sending(1)
    /\ \E i \in CallsOf(1, op) :
          /\ hist[1][i].out = "return"
          /\ \A j \in 1..Len(hist[1]) :
                (j # i /\ hist[1][j].out = "return") => hist[1][j].op = "connect"

\* send_broadcast('gamestart') is the one send that has returned
OnlyGamestart ==
    /\ SentMessage.str /\ SentMessage.text = GAMESTART
    /\ OnlyReturned("send_broadcast")

\* send_sensor_update(a=1) is the one send that has returned
OnlySensorA1 ==
    /\ SentUpdate = << Pair(<<97>>, IntOf(1)) >>
    /\ OnlyReturned("send_sensor_update")

\* once the caller is out of sendall, the bytes written are the frames of
\* the sends that returned, one each and in order
OneFramePerSend == ~Sending(1) => sockets[1].wire = ExpectedWire(hist[1])

\* C14 as stated: every send that returns writes exactly one frame, the
\* 4-byte big-endian length of the body and the body, and
\* send_broadcast('gamestart') writes 00 00 00 11 and the body
\* broadcast "gamestart".
C14_GamestartIs17Bytes ==
    /\ OneFramePerSend
    /\ OnlyGamestart => sockets[1].wire = <<0, 0, 0, 17>> \o GamestartBody

\* C14 amended: every send that returns writes exactly one frame, the
\* 4-byte big-endian length of the body and the body;
\* send_broadcast('gamestart') writes 00 00 00 15 and the 21 bytes of
\* broadcast "gamestart", and send_sensor_update(a=1) writes 00 00 00 14 and
\* the 20 bytes of sensor-update "a" 1 .
C14_SendWritesOneFrame ==
    /\ OneFramePerSend
    /\ OnlyGamestart => sockets[1].wire = <<0, 0, 0, 21>> \o GamestartBody
    /\ OnlySensorA1 => sockets[1].wire = SensorA1Frame

\* send_broadcast('gamestart') has returned, and no other send
C14_Witness == OnlyGamestart

\* this step adds a frame or a handler invocation of thread t
ActsInStep(t) ==
    \/ Len(frames') > Len(frames) /\ frames'[Len(frames')].t = t
    \/ Len(handled') > Len(handled) /\ handled'[Len(handled')].t = t

\* this step is one in which a caller thread calls connect
ConnectCalled ==
    \E c \in Callers :
        /\ callers[c].pc = "idle"
        /\ \/ callers'[c].op = "connect"
           \/ /\ Len(hist'[c]) > Len(hist[c])
              /\ hist'[c][Len(hist'[c])].op = "connect"

\* C15: a read that fails with socket.error ends the receive loop: the
\* thread is dead as soon as the error is set, from then on it reads
\* nothing and invokes no handler, and no socket is made and no thread
\* started but by a call of connect from a caller thread.
C15_ReadErrorEndsLoop ==
    [][ /\ \A t \in SockIds :
            /\ thr'[t].exc = "socket.error" => thr'[t].pc = "dead"
            /\ thr[t].exc = "socket.error" => thr'[t] = thr[t] /\ ~ActsInStep(t)
        /\ (sock' # sock \/ Started' # Started)
              => \/ ConnectCalled
                 \/ \E c \in Callers : callers[c].op = "connect"
      ]_vars

\* the peer has reset the connection, the read has failed and the caller
\* has made calls since
C15_Witness ==
    /\ Killed(1, "socket.error")
    /\ sockets[1].peer = "rst"
    /\ Len(hist[1]) >= 2

\* the sockets whose TCP connect has failed
Unconnected == {s \in SockIds : sockets[s].state = "unconnected"}

\* the finished calls of connect that raised socket.error
FailedConnects ==
    {<<c, i>> \in Callers \X (1..MaxCalls) :
        i \in CallsOf(c, "connect") /\ hist[c][i].out = "socket.error"}

\* C16: a connect whose TCP connect fails raises to its caller at once,
\* leaves is_connected() as it was (false, when it was false) and starts no
\* receiver thread: each socket that failed to connect has its call ended
\* with socket.error and its thread never started.
C16_FailedConnectStartsNothing ==
    /\ Cardinality(FailedConnects) = Cardinality(Unconnected)
    /\ \A s \in Unconnected :
          /\ thr[s].pc = "new"
          /\ \A c \in Callers : callers[c].pc = "connecting" => callers[c].target # s
    /\ \A <<c, i>> \in FailedConnects :
          /\ hist[c][i].conn = hist[c][i].was
          /\ hist[c][i].first => ~hist[c][i].conn

\* the first connect of an object has failed
C16_Witness ==
    /\ Len(hist[1]) >= 1
    /\ hist[1][1].op = "connect"
    /\ hist[1][1].out = "socket.error"
    /\ ~hist[1][1].was /\ ~hist[1][1].conn

\* a frame body that is a broadcast, or a sensor-update whose pairs parse
Recognised(body) ==
    /\ ValidUtf8(body)
    /\ \/ StartsWith(Decode(body), KW_BROADCAST)
       \/ /\ StartsWith(Decode(body), KW_SENSOR)
          /\ ParseSensorUpdate(Decode(body)).exc = ""

\* the handler invocation that a recognised frame body calls for
InvocationFor(body) ==
    IF StartsWith(Decode(body), KW_BROADCAST)
    THEN [act |-> "broadcast", arg |-> ParseBroadcast(Decode(body))]
    ELSE [act |-> "sensor-update", arg |-> ParseSensorUpdate(Decode(body)).dict]

\* the invocations that the recognised ones of some frame bodies call for
InvocationsFor(bodies) ==
    LET r == SelectSeq(bodies, Recognised)
    IN  [i \in 1..Len(r) |-> InvocationFor(r[i])]

\* the handler invocations made, without the thread that made them
Invoked == [i \in 1..Len(handled) |-> [act |-> handled[i].act, arg |-> handled[i].arg]]

RECURSIVE FramedLen(_)
\* the number of bytes that frames with the given bodies take on the wire
FramedLen(bodies) ==
    IF bodies = <<>> THEN 0 ELSE 4 + Len(Head(bodies)) + FramedLen(Tail(bodies))

\* the handler invocations are those of the first recognised frames of the
\* stream, in order and once each
InvokedInOrder == IsPrefix(Invoked, InvocationsFor(FramesOf(sockets[1].script)))

\* while a handler runs, no byte after its frame has been read
HandlerBeforeNextByte ==
    thr[1].pc = "handler"
        => Len(sockets[1].script) - Len(sockets[1].inq) = FramedLen(Yielded)

\* C17: handlers are invoked on the receiver thread once per recognised
\* frame and in the order of the frames on the wire, each handler returns
\* before a byte of the next frame is read, and the loop does not stop
\* before every recognised frame of the stream has had its invocation.
C17_OneInvocationPerFrameInOrder ==
    /\ InvokedInOrder
    /\ HandlerBeforeNextByte
    /\ Exited(1) => Invoked = InvocationsFor(FramesOf(sockets[1].script))

\* a receiver thread is between two iterations of its loop
AtBoundary(t) == thr[t].pc \in {"recv", "done"}

\* C18: at every iteration boundary of the receive loop, whatever the peer
\* sends, the receive buffer holds fewer than 4 bytes or fewer than 4 + n
\* bytes, n its first 4 bytes as a big-endian signed integer; and it is
\* empty when the last byte read has completed a frame.
C18_BufferHoldsLessThanAFrame ==
    \A t \in SockIds :
        AtBoundary(t) =>
            /\ \/ Len(thr[t].buf) < 4
               \/ Len(thr[t].buf) < 4 + Unpack(SubSeq(thr[t].buf, 1, 4))
            /\ Len(sockets[1].script) - Len(sockets[1].inq) = FramedLen(Yielded)
                  => thr[t].buf = <<>>

\* this step ends a call of connect that reached line 106, on a socket whose
\* TCP connect succeeded (a disconnect from a handler may have closed the
\* socket since)
ConnectEnds ==
    \E c \in Callers :
        /\ callers[c].pc = "connecting"
        /\ callers'[c].pc = "idle"
        /\ sockets[callers[c].target].state \in {"open", "closed"}

\* this step ends the join of a call of disconnect, on a caller thread or in
\* a handler
DisconnectEnds ==
    \/ \E c \in Callers : callers[c].pc = "joining" /\ callers'[c].pc = "idle"
    \/ \E t \in SockIds : thr[t].pc = "hjoin" /\ thr'[t].pc = "handler"

\* C19: is_connected() changes only inside connect, to true and after the
\* TCP connect has succeeded, and inside disconnect, to false and with the
\* socket closed; no step of the receive path, of the peer or of a send
\* changes it.
C19_OnlyConnectAndDisconnectChangeConnected ==
    [][ _connected' # _connected
          => \/ _connected' /\ ConnectEnds
             \/ ~_connected' /\ DisconnectEnds /\ sockets'[sock].state = "closed"
      ]_vars

\* a read and a send have failed on a connected object, which still says
\* it is connected
C19_Witness ==
    /\ _connected
    /\ \E t \in SockIds : Killed(t, "socket.error")
    /\ \E i \in CallsOf(1, "send_broadcast") : hist[1][i].out = "socket.error"

====
